---- MODULE Spec2Model ----
(***************************************************************************)
(* Model of ntfs-sanitizer.py: sanitize_ntfs_names walks a directory tree  *)
(* bottom-up and renames the entries whose names are not NTFS-compliant.   *)
(*                                                                         *)
(* A name is a sequence of one-character strings.  A path is a sequence of *)
(* names, relative to root_dir (<<>> is root_dir itself).  The filesystem  *)
(* is a set of entries [path, kind], kind being "file", "dir" or "link"    *)
(* (a symbolic link whose target does not exist).                          *)
(***************************************************************************)
EXTENDS Integers, Sequences, FiniteSets

VARIABLES
    fs,             \* the filesystem below root_dir
    fs0,            \* the tree as it was when the current run started
    dry_run,        \* argument dry_run
    max_length,     \* argument max_length
    pc,             \* "start", "walk": inside os.walk, "loop": inside for name in
                    \* dirs + files, "done": summary printed ("off": no run)
    stack,          \* os.walk's pending work, top of the stack last
    cur,            \* the (root, dirs, files) triple being iterated, names still to process
    change_count,
    skipped_count,
    error_count,
    log,            \* the change blocks printed so far, in order
    visited,        \* the old_path of every entry whose loop body has run
    prev,           \* the summary of the preceding dry run, or NoRun
    san             \* the name under sanitization when the steps are applied on their own

vars == <<fs, fs0, dry_run, max_length, pc, stack, cur, change_count,
          skipped_count, error_count, log, visited, prev, san>>

(***************************************************************************)
(* Bounds                                                                  *)
(***************************************************************************)
MaxNameLen == 5
MaxMaxLength == 5
MaxEntries == 3
MaxSubEntries == 1

DefaultMaxLength == 255

Min(S) == CHOOSE x \in S : \A y \in S : x <= y
Max(S) == CHOOSE x \in S : \A y \in S : x >= y

(***************************************************************************)
(* Characters                                                              *)
(***************************************************************************)
\* \x00-\x1f: the control characters a TLA+ string can spell
ControlChars == {"\t", "\n", "\f", "\r"}

ForbiddenChars == {"<", ">", ":", "\"", "/", "\\", "|", "?", "*"} \cup ControlChars

StripChars == {" ", "."}

LowerCase == <<"a","b","c","d","e","f","g","h","i","j","k","l","m",
               "n","o","p","q","r","s","t","u","v","w","x","y","z">>
UpperCase == <<"A","B","C","D","E","F","G","H","I","J","K","L","M",
               "N","O","P","Q","R","S","T","U","V","W","X","Y","Z">>

\* re.IGNORECASE on the letters of the pattern
Upper(c) ==
    IF \E i \in 1..Len(LowerCase) : LowerCase[i] = c
    THEN UpperCase[CHOOSE i \in 1..Len(LowerCase) : LowerCase[i] = c]
    ELSE c

UpperSeq(s) == [i \in 1..Len(s) |-> Upper(s[i])]

Digits == <<"0","1","2","3","4","5","6","7","8","9">>

\* str(counter) inside the f-string
RECURSIVE Decimal(_)
Decimal(n) ==
    IF n < 10 THEN <<Digits[n + 1]>>
    ELSE Decimal(n \div 10) \o <<Digits[(n % 10) + 1]>>

\* CON|PRN|AUX|NUL|COM[1-9]|LPT[1-9]
ReservedNames ==
    {<<"C","O","N">>, <<"P","R","N">>, <<"A","U","X">>, <<"N","U","L">>}
    \cup {<<"C","O","M",Digits[d + 1]>> : d \in 1..9}
    \cup {<<"L","P","T",Digits[d + 1]>> : d \in 1..9}

Unnamed == <<"u","n","n","a","m","e","d">>

ScriptName == <<"n","t","f","s","-","s","a","n","i","t","i","z","e","r",".","p","y">>

(***************************************************************************)
(* The sanitization steps                                                  *)
(***************************************************************************)
\* re.search(forbidden_chars, name)
HasInvalid(name) == \E i \in 1..Len(name) : name[i] \in ForbiddenChars

\* str.strip(' .')
Strip(s) ==
    LET keep == {i \in 1..Len(s) : s[i] \notin StripChars}
    IN  IF keep = {} THEN <<>> ELSE SubSeq(s, Min(keep), Max(keep))

HasTrailing(name) == Strip(name) # name

\* (\..*)?$ : nothing, or a dot and characters other than newline; $ also
\* matches just before a newline that ends the string
RestMatches(r) ==
    LET body == IF r # <<>> /\ r[Len(r)] = "\n" THEN SubSeq(r, 1, Len(r) - 1) ELSE r
    IN  \/ body = <<>>
        \/ /\ body[1] = "."
           /\ \A i \in 2..Len(body) : body[i] # "\n"

\* re.match(reserved_pattern, name, re.IGNORECASE)
IsReserved(name) ==
    \E k \in {3, 4} :
        /\ k <= Len(name)
        /\ UpperSeq(SubSeq(name, 1, k)) \in ReservedNames
        /\ RestMatches(SubSeq(name, k + 1, Len(name)))

\* if has_invalid or has_trailing or is_reserved
Violates(name) == HasInvalid(name) \/ HasTrailing(name) \/ IsReserved(name)

\* re.sub(forbidden_chars, '_', new_name)
Substitute(s) == [i \in 1..Len(s) |-> IF s[i] \in ForbiddenChars THEN "_" ELSE s[i]]

\* os.path.splitext of a name: the extension starts at the last dot, unless only
\* dots come before it
SplitExt(s) ==
    LET dots == {i \in 1..Len(s) : s[i] = "."}
    IN  IF dots # {} /\ \E j \in 1..(Max(dots) - 1) : s[j] # "."
        THEN [base |-> SubSeq(s, 1, Max(dots) - 1), ext |-> SubSeq(s, Max(dots), Len(s))]
        ELSE [base |-> s, ext |-> <<>>]

\* s[:n], n possibly negative
Slice(s, n) ==
    IF n >= 0 THEN SubSeq(s, 1, IF n < Len(s) THEN n ELSE Len(s))
    ELSE SubSeq(s, 1, IF Len(s) + n > 0 THEN Len(s) + n ELSE 0)

\* the new_name of a stripped name: "unnamed" when nothing is left
Trimmed(s) == IF Strip(s) = <<>> THEN Unnamed ELSE Strip(s)

\* the underscore put before a reserved name
Guarded(s) == <<"_">> \o s

\* a truncation that forgets to leave room for the extension
TruncatedWholeBase(s, maxlen) ==
    IF Len(s) > maxlen
    THEN Slice(SplitExt(s).base, maxlen) \o SplitExt(s).ext
    ELSE s

\* truncate the base, keep the extension
Truncated(s, maxlen) ==
    IF Len(s) > maxlen
    THEN Slice(SplitExt(s).base, maxlen - Len(SplitExt(s).ext)) \o SplitExt(s).ext
    ELSE s

\* new_name before the collision handling, for a name that violates a rule
Sanitized(name, maxlen) ==
    LET n1 == IF HasInvalid(name) THEN Substitute(name) ELSE name
        n2 == IF HasTrailing(name) THEN Trimmed(n1) ELSE n1
        n3 == IF IsReserved(name) THEN Guarded(n2) ELSE n2
    IN  Truncated(n3, maxlen)

(***************************************************************************)
(* The filesystem                                                          *)
(***************************************************************************)
Kinds == {"file", "dir", "link"}

Paths(f) == {e.path : e \in f}

\* os.path.join(root, name)
Join(root, name) == Append(root, name)

IsPrefix(p, q) == Len(p) <= Len(q) /\ SubSeq(q, 1, Len(p)) = p

\* an entry of any kind is at p (root_dir is <<>>)
Lexists(f, p) == p = <<>> \/ p \in Paths(f)

KindOf(f, p) == IF p = <<>> THEN "dir" ELSE (CHOOSE e \in f : e.path = p).kind

\* os.path.exists follows symbolic links: False for a link whose target is missing
Exists(f, p) == Lexists(f, p) /\ KindOf(f, p) # "link"

Children(f, top) == {e \in f : Len(e.path) = Len(top) + 1 /\ IsPrefix(top, e.path)}

NameOf(e) == e.path[Len(e.path)]

\* os.rename(old, new) raising OSError because of the tree itself
RenameRefused(f, old, new) ==
    \/ ~Lexists(f, old)
    \/ /\ Lexists(f, new)
       /\ \/ KindOf(f, old) = "dir" /\ (KindOf(f, new) # "dir" \/ Children(f, new) # {})
          \/ KindOf(f, old) # "dir" /\ KindOf(f, new) = "dir"

\* the tree after a successful os.rename(old, new): what was at new is replaced
Renamed(f, old, new) ==
    {e \in f : ~IsPrefix(old, e.path) /\ ~IsPrefix(new, e.path)}
    \cup {[path |-> new \o SubSeq(e.path, Len(old) + 1, Len(e.path)), kind |-> e.kind] :
            e \in {x \in f : IsPrefix(old, x.path)}}

(***************************************************************************)
(* os.walk(root_dir, topdown=False)                                        *)
(***************************************************************************)
\* scandir(top): the names of top's entries, directories apart from the rest
\* (a link to nothing is not a directory); walk_dirs are the ones to descend into
Frame(f, top) ==
    [top |-> top,
     dirs |-> {NameOf(e) : e \in {x \in Children(f, top) : x.kind = "dir"}},
     files |-> {NameOf(e) : e \in {x \in Children(f, top) : x.kind # "dir"}},
     walk_dirs |-> {NameOf(e) : e \in {x \in Children(f, top) : x.kind = "dir"}}]

\* scandir(top) raises unless top is a directory; os.walk then skips top
CanScan(f, top) == Lexists(f, top) /\ KindOf(f, top) = "dir"

\* a walk that yields a directory before its sub-directories have been walked
YieldAtOnce(frame) == TRUE

\* bottom-up: a directory is yielded once all its sub-directories have been walked
ReadyToYield(frame) == frame.walk_dirs = {}

(***************************************************************************)
(* The loop body, lines 38-132                                             *)
(***************************************************************************)
\* while os.path.exists(new_path): new_name = splitext(new_name)[0]_counter ext
RECURSIVE CollisionLoop(_, _, _, _, _)
CollisionLoop(f, root, new_name, ext, counter) ==
    IF Exists(f, Join(root, new_name))
    THEN CollisionLoop(f, root,
                       SplitExt(new_name).base \o <<"_">> \o Decimal(counter) \o ext,
                       ext, counter + 1)
    ELSE new_name

\* new_name as it leaves the collision handling
Resolved(f, root, new_name) == CollisionLoop(f, root, new_name, SplitExt(new_name).ext, 1)

Reasons(name) ==
    (IF HasInvalid(name) THEN {"invalid"} ELSE {})
    \cup (IF HasTrailing(name) THEN {"trailing"} ELSE {})
    \cup (IF IsReserved(name) THEN {"reserved"} ELSE {})

\* the block printed for a change, and whether an [ERROR] line followed it
Report(dry, root, name, new_name, failed) ==
    [applied |-> ~dry, location |-> root, original |-> name, modified |-> new_name,
     reasons |-> Reasons(name), error |-> failed]

\* a rename that does not look at dry_run
AppliesAlways(dry) == TRUE

\* if not dry_run: os.rename(old_path, new_path)
Applies(dry) == ~dry

\* an entry the loop passes over: the script itself, a name that needs nothing
Untouched(f) == [fs |-> f, changed |-> 0, skipped |-> 0, errors |-> 0, report |-> <<>>]

\* a name longer than max_length
TooLong(f) == [fs |-> f, changed |-> 0, skipped |-> 1, errors |-> 0, report |-> <<>>]

\* the try block ran to its end: change_count += 1
ChangeDone(f, rep) == [fs |-> f, changed |-> 1, skipped |-> 0, errors |-> 0, report |-> <<rep>>]

\* change_count += 1 placed before os.rename
ChangeFailedCounted(f, rep) ==
    [fs |-> f, changed |-> 1, skipped |-> 0, errors |-> 1, report |-> <<rep>>]

\* the block printed only after os.rename has returned
ChangeFailedSilent(f, rep) ==
    [fs |-> f, changed |-> 0, skipped |-> 0, errors |-> 1, report |-> <<>>]

\* os.rename raised: except OSError, error_count += 1
ChangeFailed(f, rep) == [fs |-> f, changed |-> 0, skipped |-> 0, errors |-> 1, report |-> <<rep>>]

\* one pass of the loop body over name in root; os_ok: the OS lets a rename through
Body(f, dry, maxlen, root, name, os_ok) ==
    LET old_path == Join(root, name)
        new_name == Resolved(f, root, Sanitized(name, maxlen))
        new_path == Join(root, new_name)
        failed   == Applies(dry) /\ (~os_ok \/ RenameRefused(f, old_path, new_path))
        rep      == Report(dry, root, name, new_name, failed)
    IN  IF name = ScriptName THEN Untouched(f)
        ELSE IF Len(name) > maxlen THEN TooLong(f)
        ELSE IF ~Violates(name) THEN Untouched(f)
        ELSE IF new_name = name THEN Untouched(f)
        ELSE IF failed THEN ChangeFailed(f, rep)
        ELSE IF Applies(dry) THEN ChangeDone(Renamed(f, old_path, new_path), rep)
        ELSE ChangeDone(f, rep)

(***************************************************************************)
(* The trees and arguments a run starts from                               *)
(***************************************************************************)
WalkNames == {<<"a", ":">>, <<"a", "?">>, <<"a", "_">>, <<"a", "_", "_", "1">>}

WalkLengths == {2, DefaultMaxLength}

SubsetsUpTo(S, n) == {T \in SUBSET S : Cardinality(T) <= n}

\* top: name -> kind for the entries of root_dir; sub: name -> kind for the
\* entries put inside every directory of root_dir
Tree(top, sub) ==
    {[path |-> <<n>>, kind |-> top[n]] : n \in DOMAIN top}
    \cup {[path |-> <<d, c>>, kind |-> sub[c]] :
            d \in {n \in DOMAIN top : top[n] = "dir"}, c \in DOMAIN sub}

\* the kinds an entry of each name is given: every name as a file, the names the
\* renames start from or arrive at also as a directory or a link to nothing
KindsFor(n) ==
    IF n = <<"a", ":">> THEN {"file", "dir"}
    ELSE IF n = <<"a", "_">> THEN Kinds
    ELSE {"file"}

KindMaps(T) == {k \in [T -> Kinds] : \A n \in T : k[n] \in KindsFor(n)}

Trees ==
    {Tree(top, sub) :
        top \in UNION {KindMaps(T) : T \in SubsetsUpTo(WalkNames, MaxEntries) \ {{}}},
        sub \in UNION {[T -> {"file"}] : T \in SubsetsUpTo(WalkNames, MaxSubEntries)}}

NoRun == [ran |-> FALSE, log |-> <<>>, renamed |-> 0, skipped |-> 0, errors |-> 0]

NoFrame == [root |-> <<>>, dirs |-> {}, files |-> {}]

SanOff == [stage |-> "off", name |-> <<>>, new_name |-> <<>>, round |-> 0]

(***************************************************************************)
(* The run                                                                 *)
(***************************************************************************)
Init ==
    /\ fs \in Trees
    /\ fs0 = fs
    /\ dry_run \in BOOLEAN
    /\ max_length \in WalkLengths
    /\ pc = "start"
    /\ stack = <<>>
    /\ cur = NoFrame
    /\ change_count = 0
    /\ skipped_count = 0
    /\ error_count = 0
    /\ log = <<>>
    /\ visited = {}
    /\ prev = NoRun
    /\ san = SanOff

\* lines 19-37: root_dir exists, the counters are zero, os.walk lists root_dir
Start ==
    /\ pc = "start"
    /\ pc' = "walk"
    /\ stack' = <<Frame(fs, <<>>)>>
    /\ UNCHANGED <<fs, fs0, dry_run, max_length, cur, change_count, skipped_count,
                   error_count, log, visited, prev, san>>

\* os.walk descends into one sub-directory of the directory on top of the stack
WalkEnter ==
    /\ pc = "walk"
    /\ stack # <<>>
    /\ LET frame == stack[Len(stack)]
       IN  /\ ~ReadyToYield(frame)
           /\ \E d \in frame.walk_dirs :
                LET rest == [stack EXCEPT ![Len(stack)].walk_dirs = @ \ {d}]
                IN  stack' = IF CanScan(fs, Join(frame.top, d))
                             THEN Append(rest, Frame(fs, Join(frame.top, d)))
                             ELSE rest
    /\ UNCHANGED <<fs, fs0, dry_run, max_length, pc, cur, change_count, skipped_count,
                   error_count, log, visited, prev, san>>

\* os.walk yields (root, dirs, files): the for loop over dirs + files begins
WalkYield ==
    /\ pc = "walk"
    /\ stack # <<>>
    /\ ReadyToYield(stack[Len(stack)])
    /\ cur' = [root |-> stack[Len(stack)].top,
               dirs |-> stack[Len(stack)].dirs,
               files |-> stack[Len(stack)].files]
    /\ stack' = SubSeq(stack, 1, Len(stack) - 1)
    /\ pc' = "loop"
    /\ UNCHANGED <<fs, fs0, dry_run, max_length, change_count, skipped_count,
                   error_count, log, visited, prev, san>>

\* one iteration of for name in dirs + files: the directories come first
ProcessEntry ==
    /\ pc = "loop"
    /\ \E name \in (IF cur.dirs # {} THEN cur.dirs ELSE cur.files), os_ok \in BOOLEAN :
         LET r == Body(fs, dry_run, max_length, cur.root, name, os_ok)
         IN  /\ fs' = r.fs
             /\ change_count' = change_count + r.changed
             /\ skipped_count' = skipped_count + r.skipped
             /\ error_count' = error_count + r.errors
             /\ log' = log \o r.report
             /\ visited' = visited \cup {Join(cur.root, name)}
             /\ cur' = [cur EXCEPT !.dirs = @ \ {name},
                                   !.files = IF cur.dirs # {} THEN @ ELSE @ \ {name}]
    /\ UNCHANGED <<fs0, dry_run, max_length, pc, stack, prev, san>>

\* dirs + files is exhausted: control returns to os.walk
LoopEnd ==
    /\ pc = "loop"
    /\ cur.dirs = {}
    /\ cur.files = {}
    /\ pc' = "walk"
    /\ cur' = NoFrame
    /\ UNCHANGED <<fs, fs0, dry_run, max_length, stack, change_count, skipped_count,
                   error_count, log, visited, prev, san>>

\* os.walk is exhausted: the summary is printed
Finish ==
    /\ pc = "walk"
    /\ stack = <<>>
    /\ pc' = "done"
    /\ UNCHANGED <<fs, fs0, dry_run, max_length, stack, cur, change_count, skipped_count,
                   error_count, log, visited, prev, san>>

\* "Run without --dry-run to apply changes": the same directory and max_length again
Rerun ==
    /\ pc = "done"
    /\ dry_run
    /\ prev' = [ran |-> TRUE, log |-> log, renamed |-> change_count,
                skipped |-> skipped_count, errors |-> error_count]
    /\ dry_run' = FALSE
    /\ fs0' = fs
    /\ pc' = "start"
    /\ change_count' = 0
    /\ skipped_count' = 0
    /\ error_count' = 0
    /\ log' = <<>>
    /\ visited' = {}
    /\ UNCHANGED <<fs, max_length, stack, cur, san>>

Next == Start \/ WalkEnter \/ WalkYield \/ ProcessEntry \/ LoopEnd \/ Finish \/ Rerun

Spec == Init /\ [][Next]_vars

(***************************************************************************)
(* The sanitization steps on their own: lines 46-85 applied to one name,   *)
(* and once more to the name they produce                                  *)
(***************************************************************************)
SanAlphabet == {"C", "o", "N", " ", ".", ":"}

SanNames == UNION {[1..k -> SanAlphabet] : k \in 1..MaxNameLen}

SanInit ==
    /\ san \in {[stage |-> "input", name |-> n, new_name |-> <<>>, round |-> 1] :
                    n \in SanNames}
    /\ max_length \in 1..MaxMaxLength
    /\ fs = {}
    /\ fs0 = {}
    /\ dry_run = TRUE
    /\ pc = "off"
    /\ stack = <<>>
    /\ cur = NoFrame
    /\ change_count = 0
    /\ skipped_count = 0
    /\ error_count = 0
    /\ log = <<>>
    /\ visited = {}
    /\ prev = NoRun

\* lines 46-49: a name longer than max_length is left as it is
SanSkip ==
    /\ san.stage = "input"
    /\ Len(san.name) > max_length
    /\ san' = [san EXCEPT !.stage = "skipped"]
    /\ UNCHANGED <<fs, fs0, dry_run, max_length, pc, stack, cur, change_count,
                   skipped_count, error_count, log, visited, prev>>

\* lines 51-85: detection, then the steps for a name that violates a rule
SanApply ==
    /\ san.stage = "input"
    /\ Len(san.name) <= max_length
    /\ san' = [san EXCEPT !.stage = "done",
                          !.new_name = IF Violates(san.name)
                                       THEN Sanitized(san.name, max_length)
                                       ELSE san.name]
    /\ UNCHANGED <<fs, fs0, dry_run, max_length, pc, stack, cur, change_count,
                   skipped_count, error_count, log, visited, prev>>

\* the name produced is given to the steps again
SanAgain ==
    /\ san.stage = "done"
    /\ san.round = 1
    /\ san' = [stage |-> "input", name |-> san.new_name, new_name |-> <<>>, round |-> 2]
    /\ UNCHANGED <<fs, fs0, dry_run, max_length, pc, stack, cur, change_count,
                   skipped_count, error_count, log, visited, prev>>

SanNext == SanSkip \/ SanApply \/ SanAgain

SanSpec == SanInit /\ [][SanNext]_vars

(***************************************************************************)
(* Properties                                                              *)
(***************************************************************************)
Last(l) == l[Len(l)]

\* a loop-body step that printed a change block
Printed == Len(log') = Len(log) + 1

\* the name the collision handling is said to choose: the candidate itself, or
\* base_N ext for the smallest N >= 1 that os.path.exists does not find
ExpectedName(f, root, cand) ==
    LET b == SplitExt(cand).base
        e == SplitExt(cand).ext
        Suffixed(n) == b \o <<"_">> \o Decimal(n) \o e
    IN  IF ~Exists(f, Join(root, cand)) THEN cand
        ELSE Suffixed(Min({n \in 1..(Cardinality(f) + 1) : ~Exists(f, Join(root, Suffixed(n)))}))

\* C1: the name chosen for a change is the sanitized candidate, or, when that
\* exists, base_N ext with the smallest free N >= 1, the suffix always appended
\* to the base of the original candidate.
CollisionSuffix ==
    [][Printed =>
        Last(log').modified =
            ExpectedName(fs, Last(log').location,
                         Sanitized(Last(log').original, max_length))]_vars

\* C2: the name the sanitization steps produce never matches the reserved
\* device name pattern.
NeverReserved ==
    (san.stage = "done" /\ san.round = 1) => ~IsReserved(san.new_name)

\* C3: the sanitization steps leave an already sanitized name unchanged.
Idempotent ==
    (san.stage = "done" /\ san.round = 2) => (~Violates(san.name) /\ san.new_name = san.name)

\* C4: a dry run never changes the filesystem: at every step the tree is the
\* one the run started from.
DryRunNoOp == dry_run => fs = fs0

DryRunReported == dry_run /\ pc = "done" /\ change_count > 0

\* C5: an entry is processed under its original path, after every entry below
\* it, and its old path exists in the tree when its loop body runs.
BottomUpOrder ==
    /\ [](\A p \in visited :
            /\ p \in Paths(fs0)
            /\ \A q \in Paths(fs0) : IsPrefix(p, q) => q \in visited)
    /\ [][\A p \in visited' \ visited : Lexists(fs, p)]_vars

ChildThenParentRenamed ==
    /\ ~dry_run
    /\ pc = "done"
    /\ \E i, j \in 1..Len(log) :
         /\ i < j
         /\ log[j].location = <<>>
         /\ log[i].location = <<log[j].original>>
         /\ ~log[i].error
         /\ ~log[j].error

\* C6: a failed rename adds one to the errors counter and nothing to the renamed
\* counter, leaves the tree as it was, and leaves the loop where a successful
\* step would, with the entries that remain still to come; at the summary
\* every entry of the tree has been processed.
FailureIsolated ==
    /\ [][(Printed /\ Last(log').error) =>
            /\ error_count' = error_count + 1
            /\ change_count' = change_count
            /\ skipped_count' = skipped_count
            /\ fs' = fs
            /\ pc' = "loop"
            /\ stack' = stack
            /\ cur'.dirs \cup cur'.files =
                 (cur.dirs \cup cur.files) \ {Last(log').original}]_vars
    /\ [](pc = "done" => visited = Paths(fs0))

ErrorThenRenamed ==
    /\ ~dry_run
    /\ pc = "done"
    /\ Len(log) >= 2
    /\ log[1].error
    /\ ~log[2].error
    /\ fs # fs0

\* the entries a run reported a change for, each with its reasons
Entries(l) ==
    {[location |-> l[i].location, original |-> l[i].original, reasons |-> l[i].reasons] :
        i \in 1..Len(l)}

\* C7: for a name no longer than max_length, the name the sanitization steps
\* produce is no longer than max_length.
LengthBound == san.stage = "done" => Len(san.new_name) <= max_length

ReservedTruncatedBeforeExt ==
    /\ san.stage = "done"
    /\ san.round = 1
    /\ IsReserved(san.name)
    /\ Len(san.name) = max_length
    /\ SplitExt(san.new_name).ext # <<>>
    /\ Len(san.new_name) = max_length

\* C8 as stated: a dry run and the live run on the same tree report the same
\* entries with the same reasons and end with the same three counts.
DryLiveSameCounts ==
    (pc = "done" /\ prev.ran) =>
        /\ Entries(prev.log) = Entries(log)
        /\ prev.renamed = change_count
        /\ prev.skipped = skipped_count
        /\ prev.errors = error_count

\* C8 amended: the same entries with the same reasons and the same skipped
\* count; the dry run counts no error, and counts as renamed what the live run
\* counts as renamed or as an error.
DryLiveAgree ==
    (pc = "done" /\ prev.ran) =>
        /\ Entries(prev.log) = Entries(log)
        /\ prev.skipped = skipped_count
        /\ prev.errors = 0
        /\ prev.renamed = change_count + error_count

DryThenLiveWithError ==
    /\ pc = "done"
    /\ prev.ran
    /\ error_count > 0
    /\ change_count > 0
    /\ skipped_count > 0

\* C9: a rename of a live run never lands on a path where an entry is, so the
\* tree keeps its number of entries.
NoOverwrite ==
    /\ [][(Printed /\ fs' # fs) =>
            Join(Last(log').location, Last(log').modified) \notin Paths(fs)]_vars
    /\ [](Cardinality(fs) = Cardinality(fs0))

\* C10: the name an entry is renamed to, or reported as renamed to, is no
\* longer than max_length.
FinalLengthBound ==
    \A i \in 1..Len(log) : ~log[i].error => Len(log[i].modified) <= max_length

====
